---- MODULE Spec2Model ----
(***************************************************************************)
(* Model of the Panoptic databases-merger plugin: the merge engine of      *)
(* utils.py (property accessor, validation gate, source-label maintenance, *)
(* merge executor) and the plugin actions of main.py (import hook,         *)
(* validate_cluster, execute_metadata_merge, update_params).               *)
(*                                                                         *)
(* A Python string is a sequence of tokens, so that concatenation, joining *)
(* and splitting are computed and not assumed.  A property bag is a        *)
(* function whose DOMAIN is the set of keys present in the dict.           *)
(***************************************************************************)
EXTENDS Integers, Sequences, FiniteSets, TLC

VARIABLES
    attr,            \* per record: state of its metadata attribute
    bags,            \* per record: the property bag (dict contents)
    merge_mappings,  \* self.merge_mappings of the plugin
    params,          \* self.params of the plugin (mapping representations)
    last,            \* history: the last operation and what it computed
    marked,          \* history: records mark_cluster_validated was invoked on
    calls            \* history: number of calls with freely chosen arguments

vars == <<attr, bags, merge_mappings, params, last, marked, calls>>

-----------------------------------------------------------------------------
(* Bounds of the model *)

\* longest string (in tokens) a merge may write; longer results are not explored
MaxStrLen == 9
\* calls with freely chosen arguments in one explored run (a call may always
\* be repeated once more with the arguments of the call before it)
MaxCalls == 1

\* execute_metadata_merge calls in one explored run of the plugin
MaxExecutes == 2

Recs == {"r1", "r2"}

-----------------------------------------------------------------------------
(* Strings, values and field names *)

NameA == <<"A">>
NameB == <<"B">>
NameX == <<"X">>
Empty == <<>>

\* PluginParams defaults
SourceField == <<"merge-source">>
FlagField == <<"merge-validated">>
MissingLabel == <<"[merge-source not provided]">>

\* a value held in a bag: a str, or the bool written by mark_cluster_validated
StrVal(s) == [kind |-> "str", s |-> s]
BoolTrue == [kind |-> "bool", s |-> <<"True">>]

\* Python truthiness of a value
IsTruthy(v) == IF v.kind = "bool" THEN v.s = <<"True">> ELSE v.s # <<>>

\* str(value), as f"{value}" renders it
Text(v) == v.s

\* `if props.get(key):`
Truthy(bag, key) == key \in DOMAIN bag /\ IsTruthy(bag[key])

\* props[key] = value
Put(bag, key, v) == [k \in (DOMAIN bag) \cup {key} |-> IF k = key THEN v ELSE bag[k]]

EmptyBag == [k \in {} |-> StrVal(Empty)]

\* ";".join(parts) and friends
RECURSIVE Join(_, _)
Join(parts, sep) ==
    IF parts = <<>> THEN <<>>
    ELSE IF Len(parts) = 1 THEN parts[1]
    ELSE parts[1] \o sep \o Join(Tail(parts), sep)

-----------------------------------------------------------------------------
(* Property accessor *)

\* get_properties raises for a record whose metadata cannot be obtained
Raises(at, r) == at[r] = "broken"

\* get_properties: a None or missing attribute becomes an empty dict in place
GetProperties(st, r) ==
    IF st.attr[r] \in {"none", "missing"}
    THEN [st EXCEPT !.attr[r] = "dict"]
    ELSE st

-----------------------------------------------------------------------------
(* Source-label maintenance and validation gate *)

\* mutant of EnsureMergeSourcePresent: the label is stamped even when present
EnsureAlwaysStamps(st, r) ==
    IF Raises(st.attr, r) THEN st
    ELSE [GetProperties(st, r) EXCEPT !.bags[r] = Put(@, SourceField, StrVal(MissingLabel))]

EnsureMergeSourcePresent(st, r) ==
    IF Raises(st.attr, r) THEN st
    ELSE LET s1 == GetProperties(st, r) IN
         IF ~Truthy(s1.bags[r], SourceField)
         THEN [s1 EXCEPT !.bags[r] = Put(@, SourceField, StrVal(MissingLabel))]
         ELSE s1

MarkClusterValidated(st, r) ==
    IF Raises(st.attr, r) THEN st
    ELSE LET s1 == GetProperties(st, r) IN
         [s1 EXCEPT !.bags[r] = Put(@, FlagField, BoolTrue)]

\* mutant of IsValidated: the validation gate lets every group through
IsValidatedSkipped(st, group) == [res |-> "true", st |-> st]

\* _is_validated: [res |-> "true" | "false" | "raise", st |-> state after the
\* get_properties calls it made]
RECURSIVE IsValidatedFrom(_, _, _)
IsValidatedFrom(st, group, i) ==
    IF i > Len(group) THEN [res |-> "false", st |-> st]
    ELSE IF Raises(st.attr, group[i]) THEN [res |-> "raise", st |-> st]
    ELSE LET s1 == GetProperties(st, group[i]) IN
         IF Truthy(s1.bags[group[i]], FlagField)
         THEN [res |-> "true", st |-> s1]
         ELSE IsValidatedFrom(s1, group, i + 1)

IsValidated(st, group) == IsValidatedFrom(st, group, 1)

-----------------------------------------------------------------------------
(* Merge executor *)

Rule(srcs, dst) == [sources |-> srcs, destination |-> dst]

RECURSIVE EnsureAll(_, _, _)
EnsureAll(st, group, i) ==
    IF i > Len(group) THEN st
    ELSE EnsureAll(EnsureMergeSourcePresent(st, group[i]), group, i + 1)

\* mutant of SourceLabel: the `or missing_label` fallback is forgotten
SourceLabelNoFallback(bag) ==
    IF SourceField \in DOMAIN bag THEN Text(bag[SourceField]) ELSE MissingLabel

\* props.get(merge_source_field, missing_label) or missing_label
SourceLabel(bag) ==
    IF Truthy(bag, SourceField) THEN Text(bag[SourceField]) ELSE MissingLabel

\* f"{value} [{source_label}]"
Entry(value, label) == Text(value) \o <<" [">> \o label \o <<"]">>

\* inner loop over mapping.sources for one record
RECURSIVE RecordEntries(_, _, _)
RecordEntries(bag, sources, j) ==
    IF j > Len(sources) THEN <<>>
    ELSE (IF Truthy(bag, sources[j])
          THEN <<Entry(bag[sources[j]], SourceLabel(bag))>>
          ELSE <<>>)
         \o RecordEntries(bag, sources, j + 1)

\* read loop over instances; a record whose bag cannot be read is skipped
RECURSIVE MergedValues(_, _, _, _)
MergedValues(st, group, mapping, i) ==
    IF i > Len(group) THEN <<>>
    ELSE (IF Raises(st.attr, group[i]) THEN <<>>
          ELSE RecordEntries(st.bags[group[i]], mapping.sources, 1))
         \o MergedValues(st, group, mapping, i + 1)

\* mutant of WriteAll: only the first record of the group is written
WriteFirstOnly(st, group, dest, v, i) ==
    IF group = <<>> \/ Raises(st.attr, group[1]) THEN st
    ELSE [st EXCEPT !.bags[group[1]] = Put(@, dest, v)]

\* write loop over instances
RECURSIVE WriteAll(_, _, _, _, _)
WriteAll(st, group, dest, v, i) ==
    IF i > Len(group) THEN st
    ELSE WriteAll(IF Raises(st.attr, group[i]) THEN st
                  ELSE [st EXCEPT !.bags[group[i]] = Put(@, dest, v)],
                  group, dest, v, i + 1)

\* mutant of ApplyMapping: the merged value is appended to what the first
\* record already holds at the destination instead of replacing it
ApplyMappingAppending(st, group, mapping) ==
    LET old == st.bags[group[1]] IN
    WriteAll(st, group, mapping.destination,
             StrVal((IF mapping.destination \in DOMAIN old
                     THEN Text(old[mapping.destination]) ELSE <<>>)
                    \o Join(MergedValues(st, group, mapping, 1), <<";">>)), 1)

\* one iteration of `for idx, mapping in enumerate(mappings)`
ApplyMapping(st, group, mapping) ==
    WriteAll(st, group, mapping.destination,
             StrVal(Join(MergedValues(st, group, mapping, 1), <<";">>)), 1)

\* the states after ensure and after each mapping, in order
RECURSIVE MappingTrace(_, _, _, _)
MappingTrace(st, group, mappings, i) ==
    IF i > Len(mappings) THEN <<st>>
    ELSE <<st>> \o MappingTrace(ApplyMapping(st, group, mappings[i]), group, mappings, i + 1)

\* merge_metadata_for_instances: [st |-> final state, trace |-> states after
\* ensure and after each mapping (empty when the call returned early),
\* ran |-> whether the mapping loop was entered]
MergeMetadataForInstances(st, group, mappings) ==
    IF group = <<>> THEN [st |-> st, trace |-> <<>>, ran |-> FALSE]
    ELSE LET v == IsValidated(st, group) IN
         IF v.res # "true" THEN [st |-> v.st, trace |-> <<>>, ran |-> FALSE]
         ELSE IF mappings = <<>> THEN [st |-> v.st, trace |-> <<>>, ran |-> FALSE]
         ELSE LET tr == MappingTrace(EnsureAll(v.st, group, 1), group, mappings, 1) IN
              [st |-> tr[Len(tr)], trace |-> tr, ran |-> TRUE]

-----------------------------------------------------------------------------
(* Mapping-rule configuration: update_params *)

\* the per-slot fields merge_map_<i>_sources / merge_map_<i>_destination
\* (25 in the plugin, NumSlots of them modelled)
NumSlots == 2

\* a parameter value that is a truthy object and not a str (a list, say)
ObjVal == [kind |-> "obj", s |-> <<"obj">>]

\* truthiness of a parameter value
ParamTruthy(v) == IF v.kind = "str" THEN v.s # <<>> ELSE TRUE

\* merge_mappings_raw, by what json.loads makes of it: kind "list" (a JSON
\* list of items), "notlist" (another JSON value), "invalid" (no JSON) or
\* "empty" (the empty string, replaced by "[]")
RawList(items) == [kind |-> "list", items |-> items]
RawOther(kind) == [kind |-> kind, items |-> <<>>]

\* an item of the list: a dict MergeMapping accepts, a dict it rejects, or
\* something that is no dict
RuleItem(srcs, dst) == [kind |-> "rule", sources |-> srcs, destination |-> dst]
BadDict == [kind |-> "baddict", sources |-> <<>>, destination |-> <<>>]
NonDict == [kind |-> "nondict", sources |-> <<>>, destination |-> <<>>]

\* loop over the parsed list: dicts that validate become rules, the rest is skipped
RECURSIVE ItemsToRules(_, _)
ItemsToRules(items, i) ==
    IF i > Len(items) THEN <<>>
    ELSE (IF items[i].kind = "rule"
          THEN <<Rule(items[i].sources, items[i].destination)>>
          ELSE <<>>)
         \o ItemsToRules(items, i + 1)

\* json.loads(raw) and the loop over it; invalid JSON is logged and yields nothing
ParseRaw(raw) ==
    IF raw.kind = "list" THEN ItemsToRules(raw.items, 1) ELSE <<>>

\* src_field.split(',')
RECURSIVE SplitComma(_, _, _)
SplitComma(s, i, cur) ==
    IF i > Len(s) THEN <<cur>>
    ELSE IF s[i] = "," THEN <<cur>> \o SplitComma(s, i + 1, <<>>)
    ELSE SplitComma(s, i + 1, Append(cur, s[i]))

\* s.strip()
RECURSIVE Strip(_)
Strip(s) ==
    IF s = <<>> THEN s
    ELSE IF Head(s) = " " THEN Strip(Tail(s))
    ELSE IF s[Len(s)] = " " THEN Strip(SubSeq(s, 1, Len(s) - 1))
    ELSE s

\* [s.strip() for s in src_field.split(',') if s.strip()]
RECURSIVE StripNonEmpty(_, _)
StripNonEmpty(parts, i) ==
    IF i > Len(parts) THEN <<>>
    ELSE (IF Strip(parts[i]) # <<>> THEN <<Strip(parts[i])>> ELSE <<>>)
         \o StripNonEmpty(parts, i + 1)

SlotSources(s) == StripNonEmpty(SplitComma(s, 1, <<>>), 1)

\* one slot: "skip" (nothing appended), "raise" (split on a non-str, or
\* MergeMapping rejecting a non-str destination) or "rule"
ParseSlot(slot) ==
    IF ~(ParamTruthy(slot.sources) /\ ParamTruthy(slot.destination))
    THEN [res |-> "skip", rule |-> Rule(<<>>, <<>>)]
    ELSE IF slot.sources.kind # "str"
    THEN [res |-> "raise", rule |-> Rule(<<>>, <<>>)]
    ELSE IF SlotSources(slot.sources.s) = <<>>
    THEN [res |-> "skip", rule |-> Rule(<<>>, <<>>)]
    ELSE IF slot.destination.kind # "str"
    THEN [res |-> "raise", rule |-> Rule(<<>>, <<>>)]
    ELSE [res |-> "rule", rule |-> Rule(SlotSources(slot.sources.s), slot.destination.s)]

\* the loop over the slots: [ok |-> no slot raised, rules |-> appended rules]
RECURSIVE ParseSlots(_, _)
ParseSlots(slots, i) ==
    IF i > Len(slots) THEN [ok |-> TRUE, rules |-> <<>>]
    ELSE LET p == ParseSlot(slots[i]) IN
         IF p.res = "raise" THEN [ok |-> FALSE, rules |-> <<>>]
         ELSE LET rest == ParseSlots(slots, i + 1) IN
              [ok |-> rest.ok,
               rules |-> (IF p.res = "rule" THEN <<p.rule>> ELSE <<>>) \o rest.rules]

\* mutant of Canonical: duplicates are recognised by destination alone
RECURSIVE CanonicalByDestination(_, _, _)
CanonicalByDestination(mappings, i, seen) ==
    IF i > Len(mappings) THEN <<>>
    ELSE IF mappings[i].destination \in seen
    THEN CanonicalByDestination(mappings, i + 1, seen)
    ELSE <<mappings[i]>>
         \o CanonicalByDestination(mappings, i + 1, seen \cup {mappings[i].destination})

\* deduplicate while preserving order; the key is (tuple(sources), destination)
RECURSIVE Canonical(_, _, _)
Canonical(mappings, i, seen) ==
    IF i > Len(mappings) THEN <<>>
    ELSE IF <<mappings[i].sources, mappings[i].destination>> \in seen
    THEN Canonical(mappings, i + 1, seen)
    ELSE <<mappings[i]>>
         \o Canonical(mappings, i + 1,
                      seen \cup {<<mappings[i].sources, mappings[i].destination>>})

\* json.dumps of the canonical list
RECURSIVE DumpRules(_)
DumpRules(rules) ==
    IF rules = <<>> THEN <<>>
    ELSE <<RuleItem(Head(rules).sources, Head(rules).destination)>> \o DumpRules(Tail(rules))

\* the per-slot fields repopulated from the canonical list
ExpandSlots(rules) ==
    [i \in 1..NumSlots |->
        IF i <= Len(rules)
        THEN [sources |-> StrVal(Join(rules[i].sources, <<",">>)),
              destination |-> StrVal(rules[i].destination)]
        ELSE [sources |-> StrVal(<<>>), destination |-> StrVal(<<>>)]]

\* the canonicalisation block of update_params on the merged parameters:
\* [ok |-> the block ran through, mappings |-> self.merge_mappings afterwards,
\*  merged |-> the merged parameters afterwards]
Canonicalize(merged, old) ==
    LET slots == ParseSlots(merged.slots, 1)
        canonical == Canonical(ParseRaw(merged.raw) \o slots.rules, 1, {})
    IN IF ~slots.ok THEN [ok |-> FALSE, mappings |-> old, merged |-> merged]
       ELSE [ok |-> TRUE, mappings |-> canonical,
             merged |-> [raw |-> RawList(DumpRules(canonical)),
                         slots |-> ExpandSlots(canonical)]]

\* PluginParams(): merge_mappings_raw "[]" and every slot empty
DefaultParams ==
    [raw |-> RawList(<<>>),
     slots |-> [i \in 1..NumSlots |->
                   [sources |-> StrVal(<<>>), destination |-> StrVal(<<>>)]]]

\* merged = dict(current); merged.update(incoming): an incoming key replaces
\* the current value, a key not sent keeps it
Unset == [kind |-> "unset", s |-> <<>>]
UnsetRaw == RawOther("unset")

Overlay(current, incoming) ==
    [raw |-> IF incoming.raw.kind = "unset" THEN current.raw ELSE incoming.raw,
     slots |-> [i \in 1..NumSlots |->
        [sources |-> IF incoming.slots[i].sources.kind = "unset"
                     THEN current.slots[i].sources ELSE incoming.slots[i].sources,
         destination |-> IF incoming.slots[i].destination.kind = "unset"
                         THEN current.slots[i].destination
                         ELSE incoming.slots[i].destination]]]

\* update_params(incoming); persisted tells whether the host stored the
\* merged parameters (super().update_params) or failed to
UpdateParams(incoming, persisted) ==
    LET merged == Overlay(params, incoming)
        c == Canonicalize(merged, merge_mappings)
    IN /\ merge_mappings' = c.mappings
       /\ params' = IF persisted THEN c.merged ELSE params
       /\ last' = [op |-> "update", raw |-> merged.raw, slots |-> merged.slots,
                   ok |-> c.ok, prev |-> merge_mappings, prevParams |-> params,
                   handed |-> c.merged, persisted |-> persisted]
       /\ UNCHANGED <<attr, bags, marked>>

-----------------------------------------------------------------------------
(* State of the engine: records with their bags *)

St == [attr |-> attr, bags |-> bags]

\* every string held in the bags of a state fits the modelled length
Fits(bs) == \A r \in Recs : \A k \in DOMAIN bs[r] : Len(bs[r][k].s) <= MaxStrLen

RECURSIVE AllFit(_, _)
AllFit(tr, i) == IF i > Len(tr) THEN TRUE ELSE Fits(tr[i].bags) /\ AllFit(tr, i + 1)

\* the bags of each state of a trace
RECURSIVE BagsOf(_)
BagsOf(tr) == IF tr = <<>> THEN <<>> ELSE <<tr[1].bags>> \o BagsOf(Tail(tr))

\* what an operation leaves in the history variable: its name and arguments,
\* the rule list handed to the engine, the state before it, the bags after
\* the label step and after each rule, whether the rule loop was entered,
\* and whether it repeats the merge call before it
Op(name, group, rules, used, trace, ran, again) ==
    [op |-> name, group |-> group, rules |-> rules, used |-> used,
     pre |-> bags, preAttr |-> attr,
     trace |-> trace, ran |-> ran, again |-> again]

\* ordered groups of distinct records, the empty selection included
Groups == {<<>>} \cup {<<r>> : r \in Recs}
          \cup {<<p[1], p[2]>> : p \in {q \in Recs \X Recs : q[1] # q[2]}}

\* a bag from a set of <<key, value>> pairs with distinct keys
MkBag(S) == [k \in {p[1] : p \in S} |-> (CHOOSE p \in S : p[1] = k)[2]]

Opt(key, s) == {{}, {<<key, StrVal(s)>>}}

TitleOf(r) == IF r = "r1" THEN <<"Foo">> ELSE <<"Bar">>
LabelOf(r) == IF r = "r1" THEN <<"DB1">> ELSE <<"DB2">>

\* bags the host may hand over before any operation of the engine
HostBags(r) ==
    {MkBag(a \cup b \cup l) :
        a \in {{<<NameA, StrVal(TitleOf(r))>>}},
        b \in IF r = "r2" THEN Opt(NameB, <<"b">>) ELSE {{}},
        l \in IF r = "r2" THEN Opt(SourceField, LabelOf(r))
             ELSE {{<<SourceField, StrVal(LabelOf(r))>>}}}

\* a record whose attribute is None or missing has no bag contents yet
WellFormed(at, bs) ==
    \A r \in Recs : at[r] # "dict" => bs[r] = EmptyBag

NoOp == [op |-> "init", group |-> <<>>, rules |-> <<>>, used |-> <<>>,
         pre |-> [r \in Recs |-> EmptyBag], preAttr |-> [r \in Recs |-> "dict"],
         trace |-> <<>>, ran |-> FALSE, again |-> FALSE]

\* r1 may come with its attribute set to None, r2 without any attribute
AttrOf(r) == IF r = "r1" THEN {"dict", "none"} ELSE {"dict", "missing"}

InitEngine(attrs) ==
    /\ attr \in [Recs -> attrs]
    /\ \A r \in Recs : attr[r] \in AttrOf(r) \cup (attrs \ {"dict", "none", "missing"})
    /\ bags \in [Recs -> UNION {HostBags(r) \cup {EmptyBag} : r \in Recs}]
    /\ \A r \in Recs : bags[r] \in HostBags(r) \cup {EmptyBag}
    /\ \A r \in Recs : attr[r] = "dict" => bags[r] # EmptyBag
    /\ WellFormed(attr, bags)
    /\ merge_mappings = <<>>
    /\ params = DefaultParams
    /\ last = NoOp
    /\ marked = {}
    /\ calls = 0

Init == InitEngine({"dict", "none", "missing"})

-----------------------------------------------------------------------------
(* Operations of the engine, called directly *)

RuleAB == Rule(<<NameA, NameB>>, NameX)
RuleAA == Rule(<<NameA>>, NameA)
RuleXB == Rule(<<NameX>>, NameB)
RuleLabel == Rule(<<NameB>>, SourceField)
RuleFlag == Rule(<<NameB>>, FlagField)
RuleFromFlag == Rule(<<FlagField>>, NameX)
RuleNoSources == Rule(<<>>, NameX)
RuleNoDest == Rule(<<NameA>>, Empty)

\* rule lists handed to merge_metadata_for_instances
RuleLists ==
    { <<>>,
      <<RuleAB>>, <<RuleAA>>, <<RuleXB>>, <<RuleLabel>>, <<RuleFlag>>,
      <<RuleFromFlag>>, <<RuleNoSources>>, <<RuleNoDest>>,
      <<RuleAB, RuleXB>>, <<RuleXB, RuleAB>>, <<RuleLabel, RuleAB>>,
      <<RuleFlag, RuleAB>>, <<RuleAB, RuleNoSources>>,
      <<RuleFromFlag, RuleXB>> }

EnsureSource(r) ==
    LET s1 == EnsureMergeSourcePresent(St, r) IN
    /\ calls = 0
    /\ attr' = s1.attr
    /\ bags' = s1.bags
    /\ last' = Op("ensure", <<r>>, <<>>, <<>>, <<>>, FALSE, FALSE)
    /\ UNCHANGED <<merge_mappings, params, marked, calls>>

MarkValidated(r) ==
    LET s1 == MarkClusterValidated(St, r) IN
    /\ calls = 0
    /\ attr' = s1.attr
    /\ bags' = s1.bags
    /\ last' = Op("mark", <<r>>, <<>>, <<>>, <<>>, FALSE, FALSE)
    /\ marked' = marked \cup {r}
    /\ UNCHANGED <<merge_mappings, params, calls>>

Merge(group, rules) ==
    LET m == MergeMetadataForInstances(St, group, rules) IN
    /\ AllFit(m.trace, 1)
    /\ attr' = m.st.attr
    /\ bags' = m.st.bags
    /\ last' = Op("merge", group, rules, rules, BagsOf(m.trace), m.ran,
                  last.op = "merge" /\ last.ran /\ last.group = group
                  /\ last.rules = rules)
    /\ UNCHANGED <<merge_mappings, params, marked>>

MergeFresh(group, rules) ==
    /\ calls < MaxCalls
    /\ calls' = calls + 1
    /\ Merge(group, rules)

MergeAgain ==
    /\ last.op = "merge"
    /\ ~last.again
    /\ UNCHANGED calls
    /\ Merge(last.group, last.rules)

Next ==
    \/ \E r \in Recs : EnsureSource(r)
    \/ \E r \in Recs : MarkValidated(r)
    \/ \E g \in Groups, rs \in RuleLists : MergeFresh(g, rs)
    \/ MergeAgain

Spec == Init /\ [][Next]_vars

\* the same operations on records some of which cannot yield a property bag
InitFault ==
    /\ InitEngine({"dict", "broken"})
    /\ \E r \in Recs : attr[r] = "broken"

SpecFault == InitFault /\ [][Next]_vars

-----------------------------------------------------------------------------
(* The configuration on its own: update_params called by the host *)

ItemAX == RuleItem(<<NameA>>, NameX)
ItemBY == RuleItem(<<NameB>>, <<"Y">>)

\* values of merge_mappings_raw the host may send
RawChoices ==
    { UnsetRaw, RawOther("invalid"), RawOther("notlist"), RawOther("empty"),
      RawList(<<ItemAX, ItemBY, ItemAX>>), RawList(<<NonDict, ItemBY, BadDict, ItemAX>>) }

SlotPair(src, dst) == [sources |-> src, destination |-> dst]

\* values of the first slot the host may send, all of them strings
FirstSlotChoices ==
    { SlotPair(Unset, Unset),
      SlotPair(StrVal(<<"A">>), StrVal(NameX)),
      SlotPair(StrVal(<<"A", ",", "B">>), StrVal(NameX)),
      SlotPair(StrVal(<<" ", "A", ",", " ", ",", "B", " ">>), StrVal(NameX)),
      SlotPair(StrVal(<<",">>), StrVal(NameX)),
      SlotPair(StrVal(<<"A">>), StrVal(<<>>)),
      SlotPair(StrVal(<<>>), StrVal(NameX)),
      SlotPair(StrVal(<<"B">>), StrVal(<<"Y">>)) }

\* values of the first slot that are no strings
IllTypedSlotChoices ==
    { SlotPair(ObjVal, StrVal(NameX)), SlotPair(StrVal(<<"A">>), ObjVal) }

\* values of the other slots the host may send
OtherSlotChoices ==
    { SlotPair(Unset, Unset), SlotPair(StrVal(<<"A">>), StrVal(NameX)) }

Incomings(first) ==
    {[raw |-> r, slots |-> sl] :
        r \in RawChoices,
        sl \in {f \in [1..NumSlots -> first \cup OtherSlotChoices] :
                    /\ f[1] \in first
                    /\ \A i \in 2..NumSlots : f[i] \in OtherSlotChoices}}

\* update_params({}): nothing sent
NoIncoming == [raw |-> UnsetRaw, slots |-> [i \in 1..NumSlots |-> SlotPair(Unset, Unset)]]

InitConfig ==
    /\ attr = [r \in Recs |-> "dict"]
    /\ bags = [r \in Recs |-> MkBag({<<NameA, StrVal(TitleOf(r))>>})]
    /\ merge_mappings = <<>>
    /\ params = DefaultParams
    /\ last = NoOp
    /\ marked = {}
    /\ calls = 0

UpdateFresh(incoming, persisted) ==
    /\ calls < MaxCalls
    /\ calls' = calls + 1
    /\ UpdateParams(incoming, persisted)

\* update_params called once more with nothing new
UpdateAgain(persisted) ==
    /\ last.op = "update"
    /\ UNCHANGED calls
    /\ UpdateParams(NoIncoming, persisted)

NextConfig ==
    \/ \E inc \in Incomings(FirstSlotChoices), ok \in BOOLEAN : UpdateFresh(inc, ok)
    \/ \E ok \in BOOLEAN : UpdateAgain(ok)

SpecConfig == InitConfig /\ [][NextConfig]_vars

NextConfigIllTyped ==
    \/ \E inc \in Incomings(FirstSlotChoices \cup IllTypedSlotChoices), ok \in BOOLEAN :
          UpdateFresh(inc, ok)
    \/ \E ok \in BOOLEAN : UpdateAgain(ok)

SpecConfigIllTyped == InitConfig /\ [][NextConfigIllTyped]_vars

-----------------------------------------------------------------------------
(* Reconfiguration: update_params called again on what an earlier call left *)

ItemAY == RuleItem(<<NameA>>, <<"Y">>)

\* a field name holding a comma, and one with a leading blank
NameWithComma == <<"A", ",", "B">>
NameWithBlank == <<" ", "A">>

\* values of merge_mappings_raw the operator may configure first
ReconfigureRaws ==
    { UnsetRaw, RawOther("invalid"), RawOther("empty"),
      RawList(<<ItemAX, ItemBY>>),
      RawList(<<ItemAX, ItemBY, ItemAY>>),
      RawList(<<RuleItem(<<NameA, NameB>>, NameX)>>),
      RawList(<<RuleItem(<<NameWithComma>>, NameX)>>),
      RawList(<<RuleItem(<<NameWithBlank>>, NameX)>>),
      RawList(<<RuleItem(<<>>, NameX), ItemAX>>) }

ReconfigureIncomings ==
    {[raw |-> r, slots |-> [i \in 1..NumSlots |-> IF i = 1 THEN f ELSE SlotPair(Unset, Unset)]] :
        r \in ReconfigureRaws, f \in FirstSlotChoices}

\* update_params({"merge_mappings_raw": <text that is no JSON>})
UpdateInvalidRaw(persisted) ==
    /\ last.op = "update"
    /\ UNCHANGED calls
    /\ UpdateParams([NoIncoming EXCEPT !.raw = RawOther("invalid")], persisted)

\* update_params(<the parameters the previous call persisted>)
FeedBack(persisted) ==
    /\ last.op = "update"
    /\ last.persisted
    /\ UNCHANGED calls
    /\ UpdateParams(params, persisted)

NextReconfigure ==
    \/ \E inc \in ReconfigureIncomings, ok \in BOOLEAN : UpdateFresh(inc, ok)
    \/ \E ok \in BOOLEAN : UpdateInvalidRaw(ok)
    \/ \E ok \in BOOLEAN : FeedBack(ok)

SpecReconfigure == InitConfig /\ [][NextReconfigure]_vars

-----------------------------------------------------------------------------
(* The plugin: import hook, validate_cluster, execute_metadata_merge and
   update_params on the same records *)

\* mutant of ValidMappings: the filter stops at the first invalid rule
RECURSIVE ValidMappingsUntilInvalid(_, _)
ValidMappingsUntilInvalid(mappings, i) ==
    IF i > Len(mappings) THEN <<>>
    ELSE IF mappings[i].sources = <<>> \/ mappings[i].destination = <<>> THEN <<>>
    ELSE <<mappings[i]>> \o ValidMappingsUntilInvalid(mappings, i + 1)

\* "Validate mappings quickly before calling merge"
RECURSIVE ValidMappings(_, _)
ValidMappings(mappings, i) ==
    IF i > Len(mappings) THEN <<>>
    ELSE (IF mappings[i].sources = <<>> \/ mappings[i].destination = <<>>
          THEN <<>> ELSE <<mappings[i]>>)
         \o ValidMappings(mappings, i + 1)

RECURSIVE MarkAll(_, _, _)
MarkAll(st, group, i) ==
    IF i > Len(group) THEN st
    ELSE MarkAll(MarkClusterValidated(st, group[i]), group, i + 1)

OnInstanceImport(r) ==
    LET s1 == EnsureMergeSourcePresent(St, r) IN
    /\ calls = 0
    /\ attr' = s1.attr
    /\ bags' = s1.bags
    /\ last' = Op("import", <<r>>, <<>>, <<>>, <<>>, FALSE, FALSE)
    /\ UNCHANGED <<merge_mappings, params, marked, calls>>

ValidateCluster(group) ==
    LET s1 == MarkAll(St, group, 1) IN
    /\ calls = 0
    /\ attr' = s1.attr
    /\ bags' = s1.bags
    /\ last' = Op("validate", group, <<>>, <<>>, <<>>, FALSE, FALSE)
    /\ marked' = marked \cup {group[i] : i \in 1..Len(group)}
    /\ UNCHANGED <<merge_mappings, params, calls>>

ExecuteMetadataMerge(group) ==
    LET valid == ValidMappings(merge_mappings, 1)
        m == MergeMetadataForInstances(St, group, valid)
    IN /\ calls < MaxExecutes
       /\ AllFit(m.trace, 1)
       /\ attr' = m.st.attr
       /\ bags' = m.st.bags
       /\ last' = Op("execute", group, merge_mappings, valid, BagsOf(m.trace), m.ran, FALSE)
       /\ calls' = calls + 1
       /\ UNCHANGED <<merge_mappings, params, marked>>

\* rule lists the operator configures through merge_mappings_raw
PluginRaws ==
    { RawList(<<RuleItem(<<NameA, NameB>>, NameX)>>),
      RawList(<<RuleItem(<<NameB>>, FlagField)>>),
      RawList(<<RuleItem(<<>>, NameX), RuleItem(<<NameA, NameB>>, NameX),
                RuleItem(<<NameA>>, Empty)>>),
      RawList(<<RuleItem(<<>>, NameB), RuleItem(<<NameA>>, NameX)>>),
      RawList(<<RuleItem(<<NameA>>, Empty), RuleItem(<<>>, NameX)>>) }

\* the operator configures the rules once, before the first merge
ConfigureRules(raw, persisted) ==
    /\ calls = 0
    /\ merge_mappings = <<>>
    /\ UNCHANGED calls
    /\ UpdateParams([NoIncoming EXCEPT !.raw = raw], persisted)

\* the plugin after __init__: default parameters, no rule, no flag on any record
InitPlugin == InitEngine({"dict"})

\* selections to validate (validate_cluster does not depend on their order)
Selections == {<<>>, <<"r1">>, <<"r2">>, <<"r1", "r2">>}

NextPlugin ==
    \/ \E r \in Recs : OnInstanceImport(r)
    \/ \E g \in Selections : ValidateCluster(g)
    \/ \E g \in Groups : ExecuteMetadataMerge(g)
    \/ \E raw \in PluginRaws, ok \in BOOLEAN : ConfigureRules(raw, ok)

SpecPlugin == InitPlugin /\ [][NextPlugin]_vars

-----------------------------------------------------------------------------
(* Vocabulary of the properties *)

Members(group) == {group[i] : i \in 1..Len(group)}

Dests(rules) == {rules[i].destination : i \in 1..Len(rules)}

\* presence and value of a key
Lookup(bag, key) ==
    IF key \in DOMAIN bag THEN [has |-> TRUE, v |-> bag[key]]
    ELSE [has |-> FALSE, v |-> StrVal(Empty)]

\* some record of the group carries a truthy validated flag
Flagged(bs, group) == \E r \in Members(group) : Truthy(bs[r], FlagField)

AllKeys(bs1, bs2) == UNION {DOMAIN bs1[r] \cup DOMAIN bs2[r] : r \in Recs}

-----------------------------------------------------------------------------
\* C1: a merge call on a group in which no record has a truthy validated flag
\* leaves every bag as it was, whatever the rule list: no destination is
\* written and no source label is stamped.
C1_UnvalidatedMergeIsNoOp ==
    (last.op = "merge" /\ ~Flagged(last.pre, last.group)) => bags = last.pre

\* an unflagged group with a record lacking its label went through a merge
\* call with rules, and nothing was written
C1_Witness ==
    /\ last.op = "merge"
    /\ Len(last.group) = 2
    /\ last.rules = <<RuleAB, RuleXB>>
    /\ ~Flagged(last.pre, last.group)
    /\ \E r \in Members(last.group) : SourceField \notin DOMAIN bags[r]
    /\ \A r \in Recs : NameX \notin DOMAIN bags[r]

-----------------------------------------------------------------------------
\* C2: after a merge call on a group with a flagged record and a non-empty
\* rule list, all records of the group hold the same value at the destination
\* of every rule.
C2_DestinationsSynchronized ==
    (last.op = "merge" /\ Flagged(last.pre, last.group) /\ last.rules # <<>>) =>
        \A d \in Dests(last.rules) : \A r, q \in Members(last.group) :
            /\ d \in DOMAIN bags[r]
            /\ bags[r][d] = bags[q][d]

\* two records, one flagged, merged with a rule writing the flag field
\* followed by a rule reading two sources
C2_Witness ==
    /\ last.op = "merge"
    /\ Len(last.group) = 2
    /\ last.rules = <<RuleFlag, RuleAB>>
    /\ Flagged(last.pre, last.group)
    /\ \E r \in Members(last.group) : ~Truthy(last.pre[r], FlagField)
    /\ \A r \in Members(last.group) : Len(bags[r][NameX].s) > 4

-----------------------------------------------------------------------------
\* The composition a rule is documented to produce, read off the bags as they
\* stand when the rule is processed: per record in group order, the truthy
\* source values in rule order, each as "<value> [<label>]", joined by ";".
LabelFor(bag) ==
    IF SourceField \in DOMAIN bag /\ IsTruthy(bag[SourceField])
    THEN bag[SourceField].s ELSE MissingLabel

Contributions(bag, rule) ==
    LET srcs == SelectSeq(rule.sources, LAMBDA f : Truthy(bag, f)) IN
    [j \in 1..Len(srcs) |-> bag[srcs[j]].s \o <<" [">> \o LabelFor(bag) \o <<"]">>]

RECURSIVE AllContributions(_, _, _)
AllContributions(bs, group, rule) ==
    IF group = <<>> THEN <<>>
    ELSE Contributions(bs[Head(group)], rule) \o AllContributions(bs, Tail(group), rule)

RECURSIVE Glued(_, _)
Glued(parts, n) ==
    IF n = 0 THEN <<>>
    ELSE IF n = 1 THEN parts[1]
    ELSE Glued(parts, n - 1) \o <<";">> \o parts[n]

Composed(bs, group, rule) ==
    LET parts == AllContributions(bs, group, rule) IN Glued(parts, Len(parts))

\* C3: on a validated group the rules are processed in order; each writes to
\* its destination, on every record, the ";"-joined "<value> [<label>]"
\* entries of the truthy source values as they stand when the rule is
\* processed (records in group order, sources in rule order), the label
\* defaulting to the missing-label text; no entry gives the empty string.
C3_RuleComposition ==
    (last.op = "merge" /\ Flagged(last.pre, last.group) /\ last.rules # <<>>) =>
        /\ Len(last.trace) = Len(last.rules) + 1
        /\ bags = last.trace[Len(last.trace)]
        /\ \A r \in Recs : \A k \in AllKeys(last.pre, last.trace[1]) \ {SourceField} :
                Lookup(last.trace[1][r], k) = Lookup(last.pre[r], k)
        /\ \A i \in 1..Len(last.rules) : \A r \in Members(last.group) :
                Lookup(last.trace[i + 1][r], last.rules[i].destination)
                = [has |-> TRUE,
                   v |-> StrVal(Composed(last.trace[i], last.group, last.rules[i]))]

\* the group <<r2, r1>>, r2 never stamped with a label, merged by the rule
\* (A, B) -> X: both records hold "Bar [<missing label>];Foo [DB1]"
C3_Witness ==
    /\ last.op = "merge"
    /\ last.group = <<"r2", "r1">>
    /\ last.rules = <<RuleAB>>
    /\ SourceField \notin DOMAIN last.pre["r2"]
    /\ \A r \in Recs :
          /\ NameX \in DOMAIN bags[r]
          /\ bags[r][NameX].s = <<"Bar", " [", "[merge-source not provided]", "]", ";",
                                  "Foo", " [", "DB1", "]">>

-----------------------------------------------------------------------------
\* C4 as stated: a merge repeated with the same group, order and rule list
\* leaves every destination with the value it had after the first run, for
\* every rule list.
C4_IdempotentForEveryRuleList ==
    (last.op = "merge" /\ last.again) =>
        \A d \in Dests(last.rules) : \A r \in Members(last.group) :
            Lookup(bags[r], d) = Lookup(last.pre[r], d)

\* no rule writes the source-label field, one of its own sources or a source
\* of a rule before it in the list
NoFeedback(rules) ==
    \A i \in 1..Len(rules) :
        /\ rules[i].destination # SourceField
        /\ \A j \in 1..i : \A n \in 1..Len(rules[j].sources) :
              rules[j].sources[n] # rules[i].destination

\* C4 amended: the repeated merge leaves every destination with the value it
\* had after the first run provided no rule's destination is the source-label
\* field or a source field of that rule or of an earlier rule of the list.
C4_IdempotentWithoutFeedback ==
    (last.op = "merge" /\ last.again /\ NoFeedback(last.rules)) =>
        \A d \in Dests(last.rules) : \A r \in Members(last.group) :
            Lookup(bags[r], d) = Lookup(last.pre[r], d)

\* a chain of two rules (flag -> X, X -> B) ran twice on a group and the
\* second run recomputed the same non-empty values
C4_Witness ==
    /\ last.op = "merge"
    /\ last.again
    /\ last.ran
    /\ last.rules = <<RuleFromFlag, RuleXB>>
    /\ \A r \in Members(last.group) :
          /\ Truthy(bags[r], NameB)
          /\ bags[r][NameB] = last.pre[r][NameB]

-----------------------------------------------------------------------------
\* C5 as stated: a merge call changes a bag only at keys that are the
\* destination of a rule passed to the call; every other key, the
\* source-label field included, keeps its presence and value.
C5_OnlyDestinationsChange ==
    last.op = "merge" =>
        \A r \in Recs : \A k \in AllKeys(last.pre, bags) \ Dests(last.rules) :
            Lookup(bags[r], k) = Lookup(last.pre[r], k)

\* C5 amended: a merge call changes a bag only at rule destinations and at the
\* source-label field, which it sets to the missing-label text on the records
\* of the group where it was absent or falsy; no key is removed and records
\* outside the group are untouched.
C5_OnlyDestinationsAndLabelChange ==
    last.op = "merge" =>
        \A r \in Recs :
            /\ DOMAIN last.pre[r] \subseteq DOMAIN bags[r]
            /\ r \notin Members(last.group) => bags[r] = last.pre[r]
            /\ \A k \in AllKeys(last.pre, bags) \ (Dests(last.rules) \cup {SourceField}) :
                  Lookup(bags[r], k) = Lookup(last.pre[r], k)
            /\ SourceField \notin Dests(last.rules) =>
                  \/ Lookup(bags[r], SourceField) = Lookup(last.pre[r], SourceField)
                  \/ /\ r \in Members(last.group)
                     /\ ~Truthy(last.pre[r], SourceField)
                     /\ Lookup(bags[r], SourceField)
                        = [has |-> TRUE, v |-> StrVal(MissingLabel)]

\* a merge ran on both records: r2, which had no label, was stamped with the
\* missing-label text, X was written and the source field A kept its value
C5_Witness ==
    /\ last.op = "merge"
    /\ last.ran
    /\ last.rules = <<RuleAB>>
    /\ Len(last.group) = 2
    /\ SourceField \notin DOMAIN last.pre["r2"]
    /\ bags["r2"][SourceField] = StrVal(MissingLabel)
    /\ Truthy(bags["r2"], NameX)
    /\ \A r \in Recs : Lookup(bags[r], NameA) = Lookup(last.pre[r], NameA)

-----------------------------------------------------------------------------
(* The rule list a configuration is documented to denote *)

\* the rules of the serialized list, in order
RulesOfRaw(raw) ==
    IF raw.kind # "list" THEN <<>>
    ELSE LET good == SelectSeq(raw.items, LAMBDA it : it.kind = "rule") IN
         [i \in 1..Len(good) |-> Rule(good[i].sources, good[i].destination)]

\* a slot is filled when both fields are non-empty strings naming at least
\* one source
FilledSlot(slot) ==
    /\ slot.sources.kind = "str" /\ slot.destination.kind = "str"
    /\ slot.sources.s # <<>> /\ slot.destination.s # <<>>
    /\ SlotSources(slot.sources.s) # <<>>

\* the rules of the filled slots, in slot order
RECURSIVE RulesOfSlots(_, _)
RulesOfSlots(slots, n) ==
    IF n = 0 THEN <<>>
    ELSE RulesOfSlots(slots, n - 1)
         \o (IF FilledSlot(slots[n])
             THEN <<Rule(SlotSources(slots[n].sources.s), slots[n].destination.s)>>
             ELSE <<>>)

\* first occurrences only, relative order kept
FirstOccurrences(rules) ==
    LET keep == {i \in 1..Len(rules) : \A j \in 1..(i - 1) : rules[j] # rules[i]}
        Rank(i) == Cardinality({j \in keep : j <= i})
    IN [n \in 1..Cardinality(keep) |-> rules[CHOOSE i \in keep : Rank(i) = n]]

Denoted(raw, slots) == FirstOccurrences(RulesOfRaw(raw) \o RulesOfSlots(slots, NumSlots))

\* C7: after update_params the rule list is the stable deduplication, by
\* (sources, destination), of the rules parsed from merge_mappings_raw in
\* order followed by the non-empty per-slot rules in slot order.
C7_StableDeduplication ==
    last.op = "update" => merge_mappings = Denoted(last.raw, last.slots)

\* the list [(A->X), (B->Y), (A->X)] together with a slot repeating (A->X)
\* yields [(A->X), (B->Y)]
C7_Witness ==
    /\ last.op = "update"
    /\ last.raw = RawList(<<ItemAX, ItemBY, ItemAX>>)
    /\ last.slots[1] = SlotPair(StrVal(<<"A">>), StrVal(NameX))
    /\ merge_mappings = <<Rule(<<NameA>>, NameX), Rule(<<NameB>>, <<"Y">>)>>

-----------------------------------------------------------------------------
\* C10: when some entries of the configuration are malformed, every
\* well-formed entry of both representations is still loaded and only the
\* malformed ones are dropped.
C10_MalformedEntriesOnlyAreDropped ==
    last.op = "update" =>
        LET wellFormed == RulesOfRaw(last.raw) \o RulesOfSlots(last.slots, NumSlots) IN
        {merge_mappings[i] : i \in 1..Len(merge_mappings)}
        = {wellFormed[i] : i \in 1..Len(wellFormed)}

-----------------------------------------------------------------------------
\* C6: starting with no validated flag on any record, an
\* execute_metadata_merge call on a group writes to the bags only if
\* validate_cluster was invoked earlier on at least one record of that group.
C6_WritesOnlyAfterValidateOnGroup ==
    (last.op = "execute" /\ bags # last.pre) =>
        Members(last.group) \cap marked # {}

-----------------------------------------------------------------------------
InvalidRule(rule) == rule.sources = <<>> \/ rule.destination = <<>>

-----------------------------------------------------------------------------
\* the records of a group whose bag can be obtained, in group order
Readable(group, at) == SelectSeq(group, LAMBDA r : at[r] # "broken")

\* C9: when one record of a group cannot yield a property bag while another
\* is flagged validated and the rule list is non-empty, the merge skips the
\* failing record and every other record receives the merged value of every
\* rule.
C9_FailingRecordIsSkipped ==
    (/\ last.op = "merge"
     /\ last.rules # <<>>
     /\ \E r \in Members(last.group) : last.preAttr[r] = "broken"
     /\ Flagged(last.pre, last.group)) =>
        /\ last.ran
        /\ \A i \in 1..Len(last.rules) :
              \A r \in Members(Readable(last.group, last.preAttr)) :
                 Lookup(last.trace[i + 1][r], last.rules[i].destination)
                 = [has |-> TRUE,
                    v |-> StrVal(Composed(last.trace[i],
                                          Readable(last.group, last.preAttr),
                                          last.rules[i]))]

-----------------------------------------------------------------------------
(* C11, C12: update_params on an earlier configuration *)

\* the parameters are the ones update_params hands over for this rule list
InSync(ps, rules) ==
    /\ ps.raw = RawList(DumpRules(rules))
    /\ ps.slots = ExpandSlots(rules)

\* C11: when update_params is passed a merge_mappings_raw that is no valid
\* JSON (and nothing else, the stored parameters being the ones persisted for
\* the rule list configured before), the rule list configured before the
\* call is retained.
C11_InvalidJsonRetainsRules ==
    (/\ last.op = "update"
     /\ last.raw.kind = "invalid"
     /\ last.slots = last.prevParams.slots
     /\ InSync(last.prevParams, last.prev))
    => merge_mappings = last.prev

\* C12: feeding the parameters persisted by one update_params call (the
\* re-serialized list with the re-expanded slots) back into update_params
\* yields the same rule list, in the same order, and the same parameters.
C12_RoundTripStable ==
    (/\ last.op = "update"
     /\ last.raw = last.prevParams.raw
     /\ last.slots = last.prevParams.slots
     /\ InSync(last.prevParams, last.prev))
    => /\ merge_mappings = last.prev
       /\ last.handed = last.prevParams

====
